---- MODULE Spec2Model ----
(***************************************************************************)
(* State-machine model of bot.py: the identity registry (player_data), the *)
(* ownership index (user_accounts), the two JSON stores on disk, the admin *)
(* link/unlink handlers, the scoring cycle and the leaderboard cycle.      *)
(* Strings that the code inspects character by character (player tags)     *)
(* are sequences of one-character strings.  A Python dict whose iteration  *)
(* order the code depends on (player_data) is a sequence of entries in     *)
(* insertion order.                                                        *)
(***************************************************************************)
EXTENDS Integers, Sequences, FiniteSets, TLC

(* ------------------------------ bounds -------------------------------- *)

\* a run is explored up to this many handler steps
MaxSteps == 5

\* ranks tried by the rank-table specification are -MaxRank .. MaxRank
MaxRank == 30

\* the clock of the rate limiter runs from 0 to MaxTime seconds
MaxTime == 100

\* a page holds up to MaxCandidates substrings that look like a player array
MaxCandidates == 3

(* --------------------------- input alphabets --------------------------- *)

\* discord ids of the members an admin can link to
Owners == {1, 2}

\* discord_user.display_name of a member
DisplayName(id) == IF id = 1 THEN "X" ELSE "Y"

\* raw player_tag arguments of /link and /unlink
RawTags ==
  { <<"#", "p", "y", "l">>,
    <<"2", "8", "9">>,
    <<"p", "y">>,
    <<"P", "Y", "L", "\n">>,
    <<"A", "B", "C", "1", "2", "3">>,
    <<"#">> }

(* ----------------------------- str methods ----------------------------- *)

LowerToUpper ==
  [c \in {"a","b","c","d","e","f","g","h","i","j","k","l","m",
          "n","o","p","q","r","s","t","u","v","w","x","y","z"} |->
     CASE c = "a" -> "A" [] c = "b" -> "B" [] c = "c" -> "C" [] c = "d" -> "D"
       [] c = "e" -> "E" [] c = "f" -> "F" [] c = "g" -> "G" [] c = "h" -> "H"
       [] c = "i" -> "I" [] c = "j" -> "J" [] c = "k" -> "K" [] c = "l" -> "L"
       [] c = "m" -> "M" [] c = "n" -> "N" [] c = "o" -> "O" [] c = "p" -> "P"
       [] c = "q" -> "Q" [] c = "r" -> "R" [] c = "s" -> "S" [] c = "t" -> "T"
       [] c = "u" -> "U" [] c = "v" -> "V" [] c = "w" -> "W" [] c = "x" -> "X"
       [] c = "y" -> "Y" [] c = "z" -> "Z"]

\* str.upper()
upper(s) ==
  [i \in 1..Len(s) |-> IF s[i] \in DOMAIN LowerToUpper THEN LowerToUpper[s[i]] ELSE s[i]]

\* str.replace('#', '')
replace_hash(s) == SelectSeq(s, LAMBDA c : c # "#")

\* player_tag.replace('#', '').upper()
normalize(raw) == upper(replace_hash(raw))

\* the character class [0289PYLQGRJCUV]
TagAlphabet == {"0","2","8","9","P","Y","L","Q","G","R","J","C","U","V"}

\* ^[0289PYLQGRJCUV]{3,} followed by the end of the string
MatchesToEnd(s) == Len(s) >= 3 /\ \A i \in 1..Len(s) : s[i] \in TagAlphabet

\* the anchor accepts only the very end of the string
validate_player_tag_strict(tag) == MatchesToEnd(upper(tag))

\* re.match(r'^[0289PYLQGRJCUV]{3,}$', tag.upper()): in Python's re, $ matches
\* at the end of the string and also just before a newline that ends it
validate_player_tag(tag) ==
  LET u == upper(tag)
  IN  \/ MatchesToEnd(u)
      \/ /\ Len(u) >= 1
         /\ u[Len(u)] = "\n"
         /\ MatchesToEnd(SubSeq(u, 1, Len(u) - 1))

(* ------------------------- dict player_data --------------------------- *)
\* player_data is a sequence of entries [tag, discord_id, points, name] with
\* distinct tags, in insertion order.

\* set(player_data.keys())
Keys(pd) == {pd[i].tag : i \in 1..Len(pd)}

\* player_data[tag]
Get(pd, tag) == pd[CHOOSE i \in 1..Len(pd) : pd[i].tag = tag]

\* player_data[tag] = {...} for a tag that is not a key
Insert(pd, tag, id, name) ==
  Append(pd, [tag |-> tag, discord_id |-> id, points |-> 0, name |-> name])

\* the membership test is missing
is_linked_never(pd, tag) == FALSE

\* tag in player_data
is_linked(pd, tag) == tag \in Keys(pd)

\* del player_data[tag]
Delete(pd, tag) == SelectSeq(pd, LAMBDA e : e.tag # tag)

\* player_data[tag]["points"] += n
AddPoints(pd, tag, n) ==
  [i \in 1..Len(pd) |->
     IF pd[i].tag = tag THEN [pd[i] EXCEPT !.points = @ + n] ELSE pd[i]]

(* ------------------------- dict user_accounts -------------------------- *)
\* user_accounts maps a discord id to the list of its tags.

\* the owner's list is replaced instead of extended
index_add_overwrite(ua, id, tag) ==
  IF id \in DOMAIN ua
    THEN [ua EXCEPT ![id] = <<tag>>]
    ELSE ua @@ (id :> <<tag>>)

\* if id not in user_accounts: user_accounts[id] = []
\* user_accounts[id].append(tag)
index_add(ua, id, tag) ==
  IF id \in DOMAIN ua
    THEN [ua EXCEPT ![id] = Append(@, tag)]
    ELSE ua @@ (id :> <<tag>>)

\* list.remove(tag): drops the first occurrence
list_remove(l, tag) ==
  LET i == CHOOSE k \in 1..Len(l) : l[k] = tag /\ \A j \in 1..(k - 1) : l[j] # tag
  IN  SubSeq(l, 1, i - 1) \o SubSeq(l, i + 1, Len(l))

\* the tag is removed from the list, an emptied list stays in the index
index_remove_keep_empty(ua, id, tag) ==
  IF id \in DOMAIN ua /\ \E k \in 1..Len(ua[id]) : ua[id][k] = tag
    THEN [ua EXCEPT ![id] = list_remove(@, tag)]
    ELSE ua

\* if id in user_accounts and tag in user_accounts[id]:
\*     user_accounts[id].remove(tag)
\*     if not user_accounts[id]: del user_accounts[id]
index_remove(ua, id, tag) ==
  IF id \in DOMAIN ua /\ \E k \in 1..Len(ua[id]) : ua[id][k] = tag
    THEN LET l == list_remove(ua[id], tag)
         IN  IF l = <<>>
               THEN [k \in DOMAIN ua \ {id} |-> ua[k]]
               ELSE [ua EXCEPT ![id] = l]
    ELSE ua

\* the loop of update_user_accounts from entry i on, ua being the index so far
RECURSIVE rebuild_from(_, _, _)
rebuild_from(pd, i, ua) ==
  IF i > Len(pd)
    THEN ua
    ELSE LET id  == pd[i].discord_id
             ua1 == IF id \in DOMAIN ua THEN ua ELSE ua @@ (id :> <<>>)
             ua2 == IF \E k \in 1..Len(ua1[id]) : ua1[id][k] = pd[i].tag
                      THEN ua1
                      ELSE [ua1 EXCEPT ![id] = Append(@, pd[i].tag)]
         IN  rebuild_from(pd, i + 1, ua2)

\* update_user_accounts(): user_accounts = {} and the loop over player_data.items()
update_user_accounts(pd) == rebuild_from(pd, 1, <<>>)

\* total_points of points_slash: for tag in user_tags: total_points +=
\* player_data[tag]["points"], over the tags of the list from position i on
RECURSIVE total_from(_, _, _)
total_from(user_tags, pd, i) ==
  IF i > Len(user_tags)
    THEN 0
    ELSE Get(pd, user_tags[i]).points + total_from(user_tags, pd, i + 1)

(* ---------------------------- class Database --------------------------- *)
\* A file is absent, corrupt (reading or parsing it raises) or valid (it holds
\* the JSON document of one json.dump).

Absent == [kind |-> "absent"]

Corrupt == [kind |-> "corrupt"]

\* json.dump of {'player_data': pd, 'user_accounts': ua}: the int keys of
\* user_accounts are written as strings
dumps(pd, ua) ==
  [kind |-> "valid",
   player_data |-> pd,
   user_accounts |->
     [k \in {ToString(id) : id \in DOMAIN ua} |->
        ua[CHOOSE id \in DOMAIN ua : ToString(id) = k]]]

\* what can happen inside the try block of save_player_data
SaveOutcomes(prim) ==
  {"ok", "no_io", "open_failed", "write_failed"}
    \cup (IF prim.kind # "absent" THEN {"copy_failed"} ELSE {})

\* shutil.copy2(data_path, backup_path) when data_path exists
copy_backup(prim, back) == IF prim.kind # "absent" THEN prim ELSE back

\* save_player_data(): the files and the outcome after the call
\*   no_io        get_data_path / get_backup_path raises
\*   copy_failed  shutil.copy2 raises after it opened the backup for writing
\*   open_failed  open(data_path, 'w') raises
\*   write_failed json.dump or the closing flush raises after the truncation
save_player_data(pd, ua, prim, back, outcome) ==
  CASE outcome = "ok" ->
         [primary |-> dumps(pd, ua), backup |-> copy_backup(prim, back),
          result |-> "saved"]
    [] outcome = "no_io" ->
         [primary |-> prim, backup |-> back, result |-> "failed"]
    [] outcome = "copy_failed" ->
         [primary |-> prim, backup |-> Corrupt, result |-> "failed"]
    [] outcome = "open_failed" ->
         [primary |-> prim, backup |-> copy_backup(prim, back), result |-> "failed"]
    [] outcome = "write_failed" ->
         [primary |-> Corrupt, backup |-> copy_backup(prim, back), result |-> "failed"]

\* player_data = {}; user_accounts = {}
EmptyState == [player_data |-> <<>>, user_accounts |-> <<>>]

\* the records are looked up under a key the file does not have
FromFile_wrong_key(file) == EmptyState

\* data = json.load(f); data.get('player_data', {}); data.get('user_accounts', {})
FromFile(file) ==
  [player_data |-> file.player_data, user_accounts |-> file.user_accounts]

\* the backup is never read
load_player_data_no_backup(prim, back) ==
  IF prim.kind = "valid" THEN FromFile(prim) ELSE EmptyState

\* load_player_data(): the globals after the call
load_player_data(prim, back) ==
  CASE prim.kind = "valid" -> FromFile(prim)
    [] prim.kind = "corrupt" -> EmptyState
    [] prim.kind = "absent" ->
         CASE back.kind = "valid" -> FromFile(back)
           [] back.kind = "corrupt" -> EmptyState
           [] back.kind = "absent" -> EmptyState

(* ---------------------------- class PointManager ----------------------- *)

\* ranks 2 and 3 swapped
POINT_SYSTEM_swapped ==
  [r \in 1..8 |->
     CASE r = 1 -> 20 [] r = 2 -> 12 [] r = 3 -> 14 [] r = 4 -> 10
       [] r = 5 -> 8  [] r = 6 -> 6  [] r = 7 -> 4  [] r = 8 -> 2]

\* POINT_SYSTEM
POINT_SYSTEM ==
  [r \in 1..8 |->
     CASE r = 1 -> 20 [] r = 2 -> 14 [] r = 3 -> 12 [] r = 4 -> 10
       [] r = 5 -> 8  [] r = 6 -> 6  [] r = 7 -> 4  [] r = 8 -> 2]

\* sum(player_points.values()) over the keys of S
RECURSIVE sum_values(_, _)
sum_values(player_points, S) ==
  IF S = {} THEN 0
  ELSE LET k == CHOOSE x \in S : TRUE
       IN  player_points[k] + sum_values(player_points, S \ {k})

\* round((points / total_points) * 100, 1) for 0 <= points and 0 < total_points,
\* as a number of tenths of a percent: the nearest tenth, an exact half going to
\* the even tenth (round(6.25, 1) is 6.2, round(6.75, 1) is 6.8)
round_percentage(points, total_points) ==
  LET n == 1000 * points
      q == n \div total_points
      r == n % total_points
  IN  IF 2 * r < total_points THEN q
      ELSE IF 2 * r > total_points THEN q + 1
      ELSE IF q % 2 = 0 THEN q ELSE q + 1

\* calculate_order_percentages(player_points): a total of 0 gives the empty dict
calculate_order_percentages(player_points) ==
  LET total_points == sum_values(player_points, DOMAIN player_points)
  IN  IF total_points = 0
        THEN [raised |-> FALSE, percentages |-> <<>>]
        ELSE [raised |-> FALSE,
              percentages |-> [k \in DOMAIN player_points |->
                                 round_percentage(player_points[k], total_points)]]

\* no rank earns points
calculate_points_none(rank) == 0

\* calculate_points(rank): POINT_SYSTEM.get(rank, 0)
calculate_points(rank) == IF rank \in DOMAIN POINT_SYSTEM THEN POINT_SYSTEM[rank] ELSE 0

(* ------------------------- calculate_daily_orders ---------------------- *)

\* user_totals of calculate_daily_orders: the summed points of every key of
\* user_accounts
user_totals_of(ua, pd) == [user_id \in DOMAIN ua |-> total_from(ua[user_id], pd, 1)]

\* user_percentages of calculate_daily_orders for a non-empty user_totals: the
\* division is not guarded, a total of 0 raises ZeroDivisionError
daily_percentages(user_totals) ==
  LET total_points == sum_values(user_totals, DOMAIN user_totals)
  IN  IF total_points = 0
        THEN [raised |-> TRUE, percentages |-> <<>>]
        ELSE [raised |-> FALSE,
              percentages |-> [user_id \in DOMAIN user_totals |->
                                 round_percentage(user_totals[user_id], total_points)]]

(* ------------------------------ scraped data --------------------------- *)
\* A JSON value of a scraped record's rank or position field.

IntVal(n) == [t |-> "int", v |-> n]

StrVal(s) == [t |-> "str", v |-> s]

NoneVal == [t |-> "none"]

\* the JSON literal Infinity (or a number beyond the float range, as 1e999),
\* which json.loads reads as float('inf')
InfVal == [t |-> "inf"]

Digits == {"0","1","2","3","4","5","6","7","8","9"}

DigitValue(c) ==
  CASE c = "0" -> 0 [] c = "1" -> 1 [] c = "2" -> 2 [] c = "3" -> 3 [] c = "4" -> 4
    [] c = "5" -> 5 [] c = "6" -> 6 [] c = "7" -> 7 [] c = "8" -> 8 [] c = "9" -> 9

\* value of a string of decimal digits
RECURSIVE DecimalValue(_)
DecimalValue(s) ==
  IF s = <<>> THEN 0
  ELSE 10 * DecimalValue(SubSeq(s, 1, Len(s) - 1)) + DigitValue(s[Len(s)])

\* str.strip() for blanks
RECURSIVE strip(_)
strip(s) ==
  IF s # <<>> /\ s[1] = " " THEN strip(Tail(s))
  ELSE IF s # <<>> /\ s[Len(s)] = " " THEN strip(SubSeq(s, 1, Len(s) - 1))
  ELSE s

\* int(float('inf')) raises OverflowError, which is neither a ValueError nor a
\* TypeError: the except clause of the loop does not catch it
int_overflows(rank) == rank.t = "inf"

\* int(rank) inside try/except (ValueError, TypeError): ok is FALSE when it raises
int_of(rank) ==
  CASE rank.t = "int" -> [ok |-> TRUE, v |-> rank.v]
    [] rank.t = "none" -> [ok |-> FALSE, v |-> 0]
    [] rank.t = "inf" -> [ok |-> FALSE, v |-> 0]
    [] rank.t = "str" ->
         LET b    == strip(rank.v)
             neg  == b # <<>> /\ b[1] = "-"
             body == IF b # <<>> /\ b[1] \in {"-", "+"} THEN Tail(b) ELSE b
         IN  IF body # <<>> /\ \A i \in 1..Len(body) : body[i] \in Digits
               THEN [ok |-> TRUE,
                     v |-> IF neg THEN 0 - DecimalValue(body) ELSE DecimalValue(body)]
               ELSE [ok |-> FALSE, v |-> 0]

\* player.get('tag', '')
tag_of(player) == IF "tag" \in DOMAIN player THEN player.tag ELSE <<>>

\* player.get('name', 'Unknown')
name_of(player) == IF "name" \in DOMAIN player THEN player.name ELSE "Unknown"

\* player.get('rank', player.get('position', 0))
rank_of(player) ==
  IF "rank" \in DOMAIN player THEN player.rank
  ELSE IF "position" \in DOMAIN player THEN player.position
  ELSE IntVal(0)

\* the slice is missing: every scraped record is looked up
top_all(players) == players

\* players[:8]
top_8(players) == SubSeq(players, 1, IF Len(players) < 8 THEN Len(players) ELSE 8)

\* the loop of find_linked_players_in_top_8 over the records it is given
RECURSIVE match_from(_, _, _)
match_from(recs, pd, i) ==
  IF i > Len(recs)
    THEN <<>>
    ELSE LET player_tag == normalize(tag_of(recs[i]))
             rest       == match_from(recs, pd, i + 1)
         IN  IF player_tag # <<>> /\ is_linked(pd, player_tag)
               THEN <<[tag |-> player_tag, name |-> name_of(recs[i]),
                       rank |-> rank_of(recs[i])]>> \o rest
               ELSE rest

\* find_linked_players_in_top_8(players)
find_linked_players_in_top_8(players, pd) == match_from(top_8(players), pd, 1)

\* the for loop of update_points_for_leaderboard from match i on: the registry,
\* the updates list, and whether an exception left the loop (OverflowError of
\* int(rank), KeyError of player_data[player_tag])
RECURSIVE apply_from(_, _, _, _)
apply_from(linked, i, pd, updates) ==
  IF i > Len(linked)
    THEN [player_data |-> pd, updates |-> updates, raised |-> FALSE]
    ELSE LET player_tag == linked[i].tag
             rank       == int_of(linked[i].rank)
             points_to_add == calculate_points(rank.v)
         IN  IF int_overflows(linked[i].rank)
               THEN [player_data |-> pd, updates |-> updates, raised |-> TRUE]
             ELSE IF ~rank.ok
               THEN apply_from(linked, i + 1, pd, updates)
               ELSE IF points_to_add > 0
                 THEN IF player_tag \notin Keys(pd)
                        THEN [player_data |-> pd, updates |-> updates, raised |-> TRUE]
                        ELSE LET pd2 == AddPoints(pd, player_tag, points_to_add)
                             IN  apply_from(linked, i + 1, pd2,
                                   Append(updates,
                                     [tag |-> player_tag, name |-> linked[i].name,
                                      rank |-> rank.v, points_added |-> points_to_add,
                                      total_points |-> Get(pd2, player_tag).points]))
                 ELSE apply_from(linked, i + 1, pd, updates)

(* ------------------------------- inputs -------------------------------- *)

TagPYL == <<"P", "Y", "L">>

Tag289 == <<"2", "8", "9">>

\* a record of a player nobody linked
Filler(i) == [tag |-> <<"#", "Q", "Q", "Q">>, name |-> "F", rank |-> IntVal(i)]

\* one registered player at rank 1, tag written the way the page writes it
ListTop1 == <<[tag |-> <<"#", "p", "y", "l">>, name |-> "X", rank |-> IntVal(1)]>>

\* nine records: a registered player at position 8 and another at position 9
ListNine ==
  [i \in 1..9 |->
     CASE i = 8 -> [tag |-> <<"#", "2", "8", "9">>, name |-> "Y", rank |-> IntVal(2)]
       [] i = 9 -> [tag |-> <<"#", "P", "Y", "L">>, name |-> "X", rank |-> IntVal(1)]
       [] OTHER -> Filler(i)]

\* ranks as a string, missing (position instead), null and not a number; a
\* tag with a '#' inside; a tag that the list names more than once
ListMixed ==
  <<[tag |-> <<"2", "8", "9">>, name |-> "Y", rank |-> StrVal(<<"2">>)],
    [tag |-> <<"#", "P", "Y", "L">>, name |-> "X", rank |-> NoneVal],
    [tag |-> <<"#", "P", "Y", "L">>, name |-> "X", position |-> IntVal(1)],
    [name |-> "Z", rank |-> IntVal(3)],
    [tag |-> <<"2", "8", "9">>, name |-> "Y", rank |-> StrVal(<<"x">>)],
    [tag |-> <<"2", "8", "9">>, name |-> "Y"],
    [tag |-> <<"P", "#", "Y", "L">>, name |-> "X", rank |-> IntVal(8)],
    [tag |-> <<"#", "P", "Y", "L">>, name |-> "X", rank |-> IntVal(7)]>>

\* a rank the page gives as Infinity, after a record with a proper rank
ListInf ==
  <<[tag |-> <<"#", "2", "8", "9">>, name |-> "Y", rank |-> IntVal(2)],
    [tag |-> <<"#", "P", "Y", "L">>, name |-> "X", rank |-> InfVal]>>

\* what extract_player_data_from_json can return for a fetched page
ScrapedLists == {<<>>, ListTop1, ListNine, ListMixed, ListInf}

\* a store written by an earlier run of the bot
SampleStore ==
  dumps(<<[tag |-> TagPYL, discord_id |-> 1, points |-> 20, name |-> "X"]>>,
        (1 :> <<TagPYL>>))

(* -------------------------------- state -------------------------------- *)

VARIABLES
  player_data,    \* the global player_data
  user_accounts,  \* the global user_accounts
  primary,        \* data/player_data.json
  backup,         \* data/player_data_backup.json
  pc,             \* "boot" before the __main__ block has loaded, then "running"
  cycle,          \* where update_points_for_leaderboard is suspended
  cycle_result,   \* how the scoring cycle ended, when the last step ended one
  last,           \* the handler the last step ran and what it answered
  save_result,    \* what save_player_data did in the last step
  steps,          \* how many handler steps the run has taken
  calc,           \* argument and result of a calculate_points call
  scraper,        \* the clock and RoyaleAPIScraper's rate limiter
  extract         \* argument and result of an extract_player_data_from_json call

vars ==
  <<player_data, user_accounts, primary, backup, pc, cycle, cycle_result,
    last, save_result, steps, calc, scraper, extract>>

\* the last step ran handler op, which sent no answer
Ran(op) == [op |-> op, tag |-> <<>>, result |-> "none"]

NoCycleResult == [status |-> "none", updates |-> <<>>, players |-> <<>>]

Idle == [phase |-> "idle", players |-> <<>>, linked |-> <<>>]

NoCalc == [rank |-> 0, points |-> -1]

\* no page has been searched
NoExtract == [matches |-> <<>>, done |-> FALSE, raised |-> FALSE, players |-> <<>>]

\* class RoyaleAPIScraper at loop time t: last_scrape_time = 0, nothing
\* fetched yet (fetched and gap are -1 until there is a fetch, two fetches)
ScraperAt(t) ==
  [now |-> t, last_scrape_time |-> 0, current_time |-> 0, phase |-> "idle",
   fetched |-> -1, gap |-> -1]

\* module level: player_data = {}, user_accounts = {}; the data directory is
\* empty or holds what an earlier run left
Init ==
  /\ player_data = <<>>
  /\ user_accounts = <<>>
  /\ primary = Absent
  /\ backup \in {Absent, SampleStore}
  /\ pc = "boot"
  /\ cycle = Idle
  /\ cycle_result = NoCycleResult
  /\ last = Ran("none")
  /\ save_result = "none"
  /\ steps = 0
  /\ calc = NoCalc
  /\ scraper = ScraperAt(0)
  /\ extract = NoExtract

(* ------------------------------- actions ------------------------------- *)

\* one more handler step, while the run may take one
Step ==
  /\ steps < MaxSteps
  /\ steps' = steps + 1

\* the index of the file is kept
load_and_rebuild_trusting(prim, back) ==
  LET loaded == load_player_data(prim, back)
  IN  [player_data |-> loaded.player_data,
       user_accounts |-> loaded.user_accounts]

\* Database.load_player_data() followed by update_user_accounts()
load_and_rebuild(prim, back) ==
  LET loaded == load_player_data(prim, back)
  IN  [player_data |-> loaded.player_data,
       user_accounts |-> update_user_accounts(loaded.player_data)]

\* if __name__ == "__main__": load_player_data(); update_user_accounts()
Main ==
  /\ Step
  /\ pc = "boot"
  /\ LET st == load_and_rebuild(primary, backup)
     IN  /\ player_data' = st.player_data
         /\ user_accounts' = st.user_accounts
  /\ pc' = "running"
  /\ last' = Ran("main")
  /\ cycle_result' = NoCycleResult
  /\ save_result' = "none"
  /\ UNCHANGED <<primary, backup, cycle, calc, scraper, extract>>

\* on_ready(): fires on every (re)connection of the running bot
on_ready ==
  /\ Step
  /\ pc = "running"
  /\ LET st == load_and_rebuild(primary, backup)
     IN  /\ player_data' = st.player_data
         /\ user_accounts' = st.user_accounts
  /\ last' = Ran("on_ready")
  /\ cycle_result' = NoCycleResult
  /\ save_result' = "none"
  /\ UNCHANGED <<primary, backup, pc, cycle, calc, scraper, extract>>

\* the answer of an admin command that changed nothing; the message names the
\* tag only when it is already linked
Reject(op, tag, result) ==
  /\ last' = [op |-> op, tag |-> tag, result |-> result]
  /\ save_result' = "none"
  /\ UNCHANGED <<player_data, user_accounts, primary, backup>>

\* a save that raises takes the handler's changes of the globals with it
Commit_rollback(pd, ua, outcome) ==
  LET s == save_player_data(pd, ua, primary, backup, outcome)
  IN  /\ player_data' = IF s.result = "failed" THEN player_data ELSE pd
      /\ user_accounts' = IF s.result = "failed" THEN user_accounts ELSE ua
      /\ primary' = s.primary
      /\ backup' = s.backup
      /\ save_result' = s.result

\* the globals and files after a handler changed the globals to pd, ua and
\* called Database.save_player_data()
Commit(pd, ua, outcome) ==
  LET s == save_player_data(pd, ua, primary, backup, outcome)
  IN  /\ player_data' = pd
      /\ user_accounts' = ua
      /\ primary' = s.primary
      /\ backup' = s.backup
      /\ save_result' = s.result

\* /link player_tag discord_user
link_slash(raw, id) ==
  /\ Step
  /\ pc = "running"
  /\ LET player_tag == normalize(raw)
     IN  IF player_tag = <<>> \/ ~validate_player_tag(player_tag)
           THEN Reject("link", <<>>, "InvalidTag")
           ELSE IF is_linked(player_data, player_tag)
             THEN Reject("link", player_tag, "AlreadyLinked")
             ELSE /\ \E outcome \in SaveOutcomes(primary) :
                       Commit(Insert(player_data, player_tag, id, DisplayName(id)),
                              index_add(user_accounts, id, player_tag), outcome)
                  /\ last' = [op |-> "link", tag |-> player_tag, result |-> "Linked"]
  /\ cycle_result' = NoCycleResult
  /\ UNCHANGED <<pc, cycle, calc, scraper, extract>>

\* /unlink player_tag
unlink_slash(raw) ==
  /\ Step
  /\ pc = "running"
  /\ LET player_tag == normalize(raw)
     IN  IF ~is_linked(player_data, player_tag)
           THEN Reject("unlink", <<>>, "NotLinked")
           ELSE LET discord_id == Get(player_data, player_tag).discord_id
                IN  /\ \E outcome \in SaveOutcomes(primary) :
                         Commit(Delete(player_data, player_tag),
                                index_remove(user_accounts, discord_id, player_tag),
                                outcome)
                    /\ last' = [op |-> "unlink", tag |-> player_tag,
                                    result |-> "Unlinked"]
  /\ cycle_result' = NoCycleResult
  /\ UNCHANGED <<pc, cycle, calc, scraper, extract>>

\* update_leaderboard(): update_user_accounts() before the embed is built
update_leaderboard ==
  /\ Step
  /\ pc = "running"
  /\ user_accounts' = update_user_accounts(player_data)
  /\ last' = Ran("update_leaderboard")
  /\ cycle_result' = NoCycleResult
  /\ save_result' = "none"
  /\ UNCHANGED <<player_data, primary, backup, pc, cycle, calc, scraper, extract>>

\* update_points() calls update_points_for_leaderboard(), which awaits the
\* cooldown sleep and the HTTP GET of get_linked_players_placements
StartCycle ==
  /\ Step
  /\ pc = "running"
  /\ cycle.phase = "idle"
  /\ cycle' = [Idle EXCEPT !.phase = "fetching"]
  /\ last' = Ran("start")
  /\ cycle_result' = NoCycleResult
  /\ save_result' = "none"
  /\ UNCHANGED <<player_data, user_accounts, primary, backup, pc, calc, scraper, extract>>

\* the exception of the GET leaves get_linked_players_placements
FetchFailed_propagates ==
  /\ Step
  /\ cycle.phase = "fetching"
  /\ cycle' = Idle
  /\ cycle_result' = [status |-> "raised", updates |-> <<>>, players |-> <<>>]
  /\ last' = [op |-> "fetch", tag |-> <<>>, result |-> "failed"]
  /\ save_result' = "none"
  /\ UNCHANGED <<player_data, user_accounts, primary, backup, pc, calc, scraper, extract>>

\* the GET raises (timeout, connection error, raise_for_status): return [],
\* and update_points_for_leaderboard returns [] in turn
FetchFailed ==
  /\ Step
  /\ cycle.phase = "fetching"
  /\ cycle' = Idle
  /\ cycle_result' = [status |-> "returned", updates |-> <<>>, players |-> <<>>]
  /\ last' = [op |-> "fetch", tag |-> <<>>, result |-> "failed"]
  /\ save_result' = "none"
  /\ UNCHANGED <<player_data, user_accounts, primary, backup, pc, calc, scraper, extract>>

\* the page arrives: extraction and matching run without suspension, then the
\* return leaves both "async with" blocks, whose __aexit__ is awaited
FetchDone(players) ==
  /\ Step
  /\ cycle.phase = "fetching"
  /\ IF players = <<>>
       THEN /\ cycle' = Idle
            /\ cycle_result' = [status |-> "returned", updates |-> <<>>,
                                 players |-> <<>>]
       ELSE /\ cycle' = [phase |-> "closing", players |-> players,
                         linked |-> find_linked_players_in_top_8(players, player_data)]
            /\ cycle_result' = NoCycleResult
  /\ last' = Ran("fetch")
  /\ save_result' = "none"
  /\ UNCHANGED <<player_data, user_accounts, primary, backup, pc, calc, scraper, extract>>

\* update_points_for_leaderboard() from the return of
\* get_linked_players_placements to its own return or to the exception that
\* leaves it
ApplyUpdates ==
  /\ Step
  /\ cycle.phase = "closing"
  /\ LET r == apply_from(cycle.linked, 1, player_data, <<>>)
     IN  /\ cycle_result' = [status |-> IF r.raised THEN "raised" ELSE "returned",
                             updates |-> r.updates, players |-> cycle.players]
         /\ IF ~r.raised /\ r.updates # <<>>
              THEN \E outcome \in SaveOutcomes(primary) :
                     Commit(r.player_data, user_accounts, outcome)
              ELSE /\ player_data' = r.player_data
                   /\ save_result' = "none"
                   /\ UNCHANGED <<user_accounts, primary, backup>>
  /\ cycle' = Idle
  /\ last' = Ran("apply")
  /\ UNCHANGED <<pc, calc, scraper, extract>>

\* daily_orders_calculation(): clearing the old messages is guarded, the call
\* of calculate_daily_orders is not; None is returned when nobody is linked
daily_orders_calculation ==
  /\ Step
  /\ pc = "running"
  /\ LET user_totals == user_totals_of(user_accounts, player_data)
     IN  last' = [op |-> "daily", tag |-> <<>>,
                  result |-> IF DOMAIN user_totals = {} THEN "no_data"
                             ELSE IF daily_percentages(user_totals).raised
                               THEN "raised"
                               ELSE "sent"]
  /\ cycle_result' = NoCycleResult
  /\ save_result' = "none"
  /\ UNCHANGED <<player_data, user_accounts, primary, backup, pc, cycle, calc,
                 scraper, extract>>

Next ==
  \/ Main
  \/ on_ready
  \/ \E raw \in RawTags, id \in Owners : link_slash(raw, id)
  \/ \E raw \in RawTags : unlink_slash(raw)
  \/ update_leaderboard
  \/ StartCycle
  \/ FetchFailed
  \/ \E players \in ScrapedLists : FetchDone(players)
  \/ ApplyUpdates
  \/ daily_orders_calculation

Spec == Init /\ [][Next]_vars

(* ------------------- specification of the rank table ------------------- *)

\* a rank is chosen; nothing else exists yet
InitRank ==
  /\ player_data = <<>>
  /\ user_accounts = <<>>
  /\ primary = Absent
  /\ backup = Absent
  /\ pc = "boot"
  /\ cycle = Idle
  /\ cycle_result = NoCycleResult
  /\ last = Ran("none")
  /\ save_result = "none"
  /\ steps = 0
  /\ \E r \in (0 - MaxRank)..MaxRank : calc = [rank |-> r, points |-> -1]
  /\ scraper = ScraperAt(0)
  /\ extract = NoExtract

\* a call of PointManager.calculate_points(rank)
CalculatePoints ==
  /\ calc.points = -1
  /\ calc' = [calc EXCEPT !.points = calculate_points(calc.rank)]
  /\ UNCHANGED <<player_data, user_accounts, primary, backup, pc, cycle,
                 cycle_result, last, save_result, steps, scraper, extract>>

NextRank == CalculatePoints

SpecRank == InitRank /\ [][NextRank]_vars

(* ------------------- specification of the rate limiter ---------------- *)

\* RoyaleAPIScraper.SCRAPE_COOLDOWN
SCRAPE_COOLDOWN == 30

\* how far the clock moves between two steps of the scraper
Delays == {5, 30}

\* loop.time() when the class is created; nothing else exists yet
InitCooldown ==
  /\ player_data = <<>>
  /\ user_accounts = <<>>
  /\ primary = Absent
  /\ backup = Absent
  /\ pc = "boot"
  /\ cycle = Idle
  /\ cycle_result = NoCycleResult
  /\ last = Ran("none")
  /\ save_result = "none"
  /\ steps = 0
  /\ calc = NoCalc
  /\ \E t \in {0, 40} : scraper = ScraperAt(t)
  /\ extract = NoExtract

\* time passes
Tick(d) ==
  /\ scraper.now + d <= MaxTime
  /\ scraper' = [scraper EXCEPT !.now = @ + d]
  /\ UNCHANGED <<player_data, user_accounts, primary, backup, pc, cycle,
                 cycle_result, last, save_result, steps, calc, extract>>

\* RoyaleAPIScraper.last_scrape_time = current_time, then the GET is sent
fetch_now(s) ==
  [s EXCEPT !.last_scrape_time = s.current_time,
            !.phase = "idle",
            !.fetched = s.now,
            !.gap = IF s.fetched = -1 THEN -1 ELSE s.now - s.fetched]

\* get_linked_players_placements() is called: current_time = loop.time(); the
\* call suspends in asyncio.sleep when the cooldown has not elapsed, else it
\* records the time and fetches
get_linked_players_placements ==
  /\ scraper.phase = "idle"
  /\ LET s == [scraper EXCEPT !.current_time = scraper.now]
     IN  scraper' = IF s.current_time - s.last_scrape_time < SCRAPE_COOLDOWN
                    THEN [s EXCEPT !.phase = "sleeping"]
                    ELSE fetch_now(s)
  /\ UNCHANGED <<player_data, user_accounts, primary, backup, pc, cycle,
                 cycle_result, last, save_result, steps, calc, extract>>

\* asyncio.sleep(SCRAPE_COOLDOWN) returns, no sooner than SCRAPE_COOLDOWN
\* after the call; the time of the call is recorded and the fetch is made
sleep_returns ==
  /\ scraper.phase = "sleeping"
  /\ scraper.now >= scraper.current_time + SCRAPE_COOLDOWN
  /\ scraper' = fetch_now(scraper)
  /\ UNCHANGED <<player_data, user_accounts, primary, backup, pc, cycle,
                 cycle_result, last, save_result, steps, calc, extract>>

NextCooldown ==
  \/ \E d \in Delays : Tick(d)
  \/ get_linked_players_placements
  \/ sleep_returns

SpecCooldown == InitCooldown /\ [][NextCooldown]_vars

(* ------------- specification of extract_player_data_from_json --------- *)
\* A candidate is the sequence of the lexical tokens of a substring the pattern
\* found: the punctuation "[", "]", "{", "}", "," and, for the members of an
\* object,
\*   "T"  "tag": "#PYL"          a member whose key is tag
\*   "N"  "name": "tag"          a member with another key
\*   "B"  "rank": 1111...        a number of more digits than int() converts
\*   "X"  tag                    a bare word, which is not JSON
\* An object is the sequence of its members.

\* re.sub(r',\s*<closer>', '<closer>', json_str): one pass, from token i on
RECURSIVE sub_from(_, _, _)
sub_from(json_str, closer, i) ==
  IF i > Len(json_str) THEN <<>>
  ELSE IF json_str[i] = "," /\ i < Len(json_str) /\ json_str[i + 1] = closer
    THEN sub_from(json_str, closer, i + 1)
    ELSE <<json_str[i]>> \o sub_from(json_str, closer, i + 1)

\* the commas before "]" are removed first, then those before "}"
cleanup(json_str) == sub_from(sub_from(json_str, "]", 1), "}", 1)

\* json.loads from token i on, for texts that are an array of flat objects;
\* where names what the decoder expects next, players the objects it has
\* closed and cur the members of the open object.  status is "ok",
\* "JSONDecodeError", or "ValueError" for the number int() refuses, raised at
\* the token where the decoder meets it.
RECURSIVE loads_from(_, _, _, _, _)
loads_from(s, i, where, players, cur) ==
  LET bad == [status |-> "JSONDecodeError", value |-> <<>>]
      go(w, p, c) == loads_from(s, i + 1, w, p, c)
  IN  IF i > Len(s)
        THEN IF where = "end" THEN [status |-> "ok", value |-> players] ELSE bad
      ELSE CASE where = "start" ->
                  IF s[i] = "[" THEN go("first_object", players, cur) ELSE bad
             [] where = "first_object" ->
                  IF s[i] = "{" THEN go("first_member", players, <<>>)
                  ELSE IF s[i] = "]" THEN go("end", players, cur)
                  ELSE bad
             [] where = "object" ->
                  IF s[i] = "{" THEN go("first_member", players, <<>>) ELSE bad
             [] where \in {"first_member", "member"} ->
                  IF s[i] \in {"T", "N"} THEN go("after_member", players, Append(cur, s[i]))
                  ELSE IF s[i] = "B" THEN [status |-> "ValueError", value |-> <<>>]
                  ELSE IF s[i] = "}" /\ where = "first_member"
                    THEN go("after_object", Append(players, cur), <<>>)
                  ELSE bad
             [] where = "after_member" ->
                  IF s[i] = "," THEN go("member", players, cur)
                  ELSE IF s[i] = "}" THEN go("after_object", Append(players, cur), <<>>)
                  ELSE bad
             [] where = "after_object" ->
                  IF s[i] = "," THEN go("object", players, cur)
                  ELSE IF s[i] = "]" THEN go("end", players, cur)
                  ELSE bad
             [] where = "end" -> bad

\* json.loads(json_str)
loads(json_str) == loads_from(json_str, 1, "start", <<>>, <<>>)

\* 'tag' in players[0]
has_tag(player) == \E k \in 1..Len(player) : player[k] = "T"

\* the for loop over matches from candidate i on: the list returned, or raised
\* when an exception other than json.JSONDecodeError leaves the function
RECURSIVE extract_from(_, _)
extract_from(matches, i) ==
  IF i > Len(matches)
    THEN [raised |-> FALSE, players |-> <<>>]
    ELSE LET parsed == loads(cleanup(matches[i]))
         IN  IF parsed.status = "JSONDecodeError"
               THEN extract_from(matches, i + 1)
             ELSE IF parsed.status # "ok"
               THEN [raised |-> TRUE, players |-> <<>>]
             ELSE IF Len(parsed.value) > 0 /\ has_tag(parsed.value[1])
               THEN [raised |-> FALSE, players |-> parsed.value]
               ELSE extract_from(matches, i + 1)

\* extract_player_data_from_json(html_content), from re.findall's list on
extract_player_data_from_json(matches) ==
  IF matches = <<>> THEN [raised |-> FALSE, players |-> <<>>]
  ELSE extract_from(matches, 1)

\* substrings the pattern finds: each starts with "[", "{" and holds "tag"
Candidates ==
  { <<"[", "{", "N", "}", "]">>,
    <<"[", "{", "T", ",", "}", "]">>,
    <<"[", "{", "T", "}", "{", "T", "}", "]">>,
    <<"[", "{", "N", "}", ",", "{", "T", "}", "]">>,
    <<"[", "{", "T", ",", "B", "}", "]">>,
    <<"[", "{", "T", ",", "N", "}", ",", "{", "T", "}", "]">>,
    <<"[", "{", "X", ",", "T", "}", "]">> }

\* the lists of candidates of length n
RECURSIVE CandidateLists(_)
CandidateLists(n) ==
  IF n = 0 THEN {<<>>}
  ELSE {Append(l, c) : l \in CandidateLists(n - 1), c \in Candidates}

\* a page has been fetched and searched; nothing else exists yet
InitExtract ==
  /\ player_data = <<>>
  /\ user_accounts = <<>>
  /\ primary = Absent
  /\ backup = Absent
  /\ pc = "boot"
  /\ cycle = Idle
  /\ cycle_result = NoCycleResult
  /\ last = Ran("none")
  /\ save_result = "none"
  /\ steps = 0
  /\ calc = NoCalc
  /\ scraper = ScraperAt(0)
  /\ \E n \in 0..MaxCandidates : \E l \in CandidateLists(n) :
       extract = [NoExtract EXCEPT !.matches = l]

\* a call of extract_player_data_from_json
ExtractPlayers ==
  /\ ~extract.done
  /\ LET r == extract_player_data_from_json(extract.matches)
     IN  extract' = [extract EXCEPT !.done = TRUE, !.raised = r.raised,
                                    !.players = r.players]
  /\ UNCHANGED <<player_data, user_accounts, primary, backup, pc, cycle,
                 cycle_result, last, save_result, steps, calc, scraper>>

NextExtract == ExtractPlayers

SpecExtract == InitExtract /\ [][NextExtract]_vars

(* ------------------------------ properties ----------------------------- *)

\* the elements of a list
Range(l) == {l[i] : i \in 1..Len(l)}

\* the registry tags whose owner is id
TagsOf(pd, id) == {pd[i].tag : i \in {k \in 1..Len(pd) : pd[k].discord_id = id}}

\* the sum of the points of the registry entries from i on whose owner is id
RECURSIVE PointsOf(_, _, _)
PointsOf(pd, id, i) ==
  IF i > Len(pd) THEN 0
  ELSE (IF pd[i].discord_id = id THEN pd[i].points ELSE 0) + PointsOf(pd, id, i + 1)

\* the owners of the registry
OwnersOf(pd) == {pd[i].discord_id : i \in 1..Len(pd)}

\* C1: in every reachable state the ownership index is the one derived from
\* the identity records: its owners are exactly the owners of some record, each
\* owner's list holds exactly that owner's registry tags, once each, no list is
\* empty, and the total an owner is shown is the sum of the points of exactly
\* that owner's linked tags.
C1_IndexConsistent ==
  /\ DOMAIN user_accounts = OwnersOf(player_data)
  /\ \A id \in DOMAIN user_accounts :
       /\ user_accounts[id] # <<>>
       /\ Range(user_accounts[id]) = TagsOf(player_data, id)
       /\ Len(user_accounts[id]) = Cardinality(TagsOf(player_data, id))
       /\ total_from(user_accounts[id], player_data, 1) = PointsOf(player_data, id, 1)

\* an owner holds two tags and a scoring cycle has just credited one of them
C1_Witness ==
  /\ last.op = "apply"
  /\ cycle_result.updates # <<>>
  /\ \E id \in DOMAIN user_accounts :
       /\ Len(user_accounts[id]) = 2
       /\ cycle_result.updates[1].tag \in Range(user_accounts[id])

\* C2: the tags of the registry are pairwise distinct and each passes the
\* format check, so that a link of a present tag reaches the membership test;
\* a link that succeeds is never a link of a tag that was present; and a link
\* answered AlreadyLinked names a present tag and changes neither the
\* registry, the index nor the two files, and calls no save.
C2_LinkPresentRejected ==
  [][ /\ \A i, j \in 1..Len(player_data) :
           player_data[i].tag = player_data[j].tag => i = j
      /\ \A t \in Keys(player_data) : t # <<>> /\ validate_player_tag(t)
      /\ (last'.op = "link" /\ last'.result = "Linked")
           => last'.tag \notin Keys(player_data)
      /\ (last'.op = "link" /\ last'.result = "AlreadyLinked")
           => /\ last'.tag \in Keys(player_data)
              /\ save_result' = "none"
              /\ UNCHANGED <<player_data, user_accounts, primary, backup>> ]_vars

\* a link was just rejected for a tag that stays with its owner and its points
C2_Witness ==
  /\ last.op = "link"
  /\ last.result = "AlreadyLinked"
  /\ last.tag \in Keys(player_data)
  /\ Get(player_data, last.tag).points > 0

\* the format of the specification: length >= 3 over the tag alphabet
WellFormed(tag) == Len(tag) >= 3 /\ \A i \in 1..Len(tag) : tag[i] \in TagAlphabet

\* C3: a link answered InvalidTag changes neither registry, index nor files;
\* a link that succeeds inserts a tag of length >= 3 over the alphabet
\* {0,2,8,9,P,Y,L,Q,G,R,J,C,U,V}, with points = 0.
C3_OnlyWellFormedInserted ==
  [][ /\ (last'.op = "link" /\ last'.result = "InvalidTag")
           => UNCHANGED <<player_data, user_accounts, primary, backup>>
      /\ (last'.op = "link" /\ last'.result = "Linked")
           => /\ WellFormed(last'.tag)
              /\ last'.tag \in Keys(player_data')
              /\ Get(player_data', last'.tag).points = 0 ]_vars

\* the registry entries as a set
Entries(pd) == Range(pd)

\* C4: an unlink answered Unlinked was an unlink of a present tag; it removes
\* that record and no other, removes the tag from its owner's list and leaves
\* the other tags of the list, drops the owner's entry exactly when no tag is
\* left, and leaves every other owner's entry as it was.  An unlink answered
\* NotLinked changes neither registry, index nor files and calls no save.
C4_Unlink ==
  [][ /\ (last'.op = "unlink" /\ last'.result = "Unlinked")
           => /\ last'.tag \in Keys(player_data)
              /\ last'.tag \notin Keys(player_data')
              /\ Entries(player_data') =
                   {e \in Entries(player_data) : e.tag # last'.tag}
              /\ Len(player_data') = Len(player_data) - 1
              /\ LET id == Get(player_data, last'.tag).discord_id
                 IN  /\ \A k \in DOMAIN user_accounts \ {id} :
                            k \in DOMAIN user_accounts'
                              /\ user_accounts'[k] = user_accounts[k]
                     /\ DOMAIN user_accounts' \subseteq DOMAIN user_accounts
                     /\ id \in DOMAIN user_accounts'
                          <=> Range(user_accounts[id]) # {last'.tag}
                     /\ id \in DOMAIN user_accounts'
                          => Range(user_accounts'[id]) =
                               Range(user_accounts[id]) \ {last'.tag}
      /\ (last'.op = "unlink" /\ last'.result = "NotLinked")
           => /\ save_result' = "none"
              /\ UNCHANGED <<player_data, user_accounts, primary, backup>> ]_vars

\* a tag was just unlinked while its owner keeps another tag
C4_Witness ==
  /\ last.op = "unlink"
  /\ last.result = "Unlinked"
  /\ \E id \in DOMAIN user_accounts, i \in 1..Len(player_data) :
       /\ player_data[i].discord_id = id
       /\ player_data[i].points > 0

\* the table of the specification
TableValue(rank) ==
  CASE rank = 1 -> 20 [] rank = 2 -> 14 [] rank = 3 -> 12 [] rank = 4 -> 10
    [] rank = 5 -> 8 [] rank = 6 -> 6 [] rank = 7 -> 4 [] rank = 8 -> 2
    [] OTHER -> 0

\* C5: calculate_points(rank) is 20, 14, 12, 10, 8, 6, 4, 2 for rank 1..8 and
\* 0 for every other integer rank.
C5_PointsForRank == calc.points # -1 => calc.points = TableValue(calc.rank)

\* the call for rank 8 has returned 2
C5_Witness == calc.rank = 8 /\ calc.points = 2

\* how many positions of a list satisfy a test
Count(l, Test(_)) == Cardinality({i \in 1..Len(l) : Test(l[i])})

\* the first eight positions of a scraped list
FirstEight(players) == {i \in 1..Len(players) : i <= 8}

\* C6: in the step that applies a scoring cycle's matches, a tag gains points
\* or is reported in an update only if it stands (normalized) at one of the
\* first 8 positions of the scraped list, and it is reported at most once per
\* such position: a record beyond position 8 adds nothing, registered or not.
C6_BeyondEightNoPoints ==
  [][ last'.op = "apply" =>
        LET players == cycle.players
            updates == cycle_result'.updates
            Gained  == {t \in Keys(player_data) \cap Keys(player_data') :
                          Get(player_data', t).points > Get(player_data, t).points}
        IN  \A t \in Gained \cup {updates[k].tag : k \in 1..Len(updates)} :
              /\ \E i \in FirstEight(players) : normalize(tag_of(players[i])) = t
              /\ Count(updates, LAMBDA u : u.tag = t)
                   <= Cardinality({i \in FirstEight(players) :
                                     normalize(tag_of(players[i])) = t}) ]_vars

\* a cycle has just applied the list of nine records while both registered
\* players of the list were linked: the one at position 8 was credited, the one
\* at position 9 was not
C6_Witness ==
  /\ last.op = "apply"
  /\ cycle_result.players = ListNine
  /\ {TagPYL, Tag289} \subseteq Keys(player_data)
  /\ {cycle_result.updates[k].tag : k \in 1..Len(cycle_result.updates)} = {Tag289}

\* C7: while a tag stays linked its points are a non-negative integer that no
\* step decreases, whatever the step is (scoring, link or unlink of another
\* tag, a save that fails, a reload).
C7_PointsNeverDecrease ==
  [][ \A t \in Keys(player_data) \cap Keys(player_data') :
        /\ Get(player_data', t).points >= 0
        /\ Get(player_data', t).points >= Get(player_data, t).points ]_vars

\* the steps that call Database.load_player_data()
IsLoad(op) == op \in {"main", "on_ready"}

\* C8: a load that finds the primary unreadable and a valid backup yields the
\* backup's registry.
C8_FallbackOnCorruptPrimary ==
  [][ (IsLoad(last'.op) /\ primary.kind = "corrupt" /\ backup.kind = "valid")
        => player_data' = backup.player_data ]_vars

\* C9: a load that finds no primary and a valid backup yields exactly the
\* backup's identity records; a load that finds neither file yields the empty
\* registry and the empty index, and the loading step completes.
C9_LoadFromBackup ==
  [][ IsLoad(last'.op) =>
        /\ (primary.kind = "absent" /\ backup.kind = "valid")
             => player_data' = backup.player_data
        /\ (primary.kind = "absent" /\ backup.kind = "absent")
             => /\ player_data' = <<>>
                /\ user_accounts' = <<>>
                /\ pc' = "running" ]_vars

\* a load has just taken a non-empty registry from the backup, the primary
\* being absent
C9_Witness ==
  /\ IsLoad(last.op)
  /\ primary.kind = "absent"
  /\ backup.kind = "valid"
  /\ player_data = backup.player_data
  /\ player_data # <<>>

\* C10: a step whose save failed still completes with the handler's normal
\* answer and keeps the handler's change of the registry and a consistent
\* index in memory; and right after a save that succeeded the primary holds
\* exactly the identity records that are in memory.
C10_FailedSaveKeepsMemory ==
  [][ /\ save_result' = "failed" =>
           /\ C1_IndexConsistent'
           /\ last'.op = "link" =>
                /\ last'.result = "Linked"
                /\ Keys(player_data') = Keys(player_data) \cup {last'.tag}
                /\ last'.tag \notin Keys(player_data)
           /\ last'.op = "unlink" =>
                /\ last'.result = "Unlinked"
                /\ Keys(player_data') = Keys(player_data) \ {last'.tag}
                /\ last'.tag \in Keys(player_data)
           /\ last'.op = "apply" =>
                /\ cycle_result'.status = "returned"
                /\ cycle_result'.updates # <<>>
                /\ \A k \in 1..Len(cycle_result'.updates) :
                     Get(player_data', cycle_result'.updates[k].tag).points
                       > Get(player_data, cycle_result'.updates[k].tag).points
      /\ save_result' = "saved" =>
           /\ primary'.kind = "valid"
           /\ primary'.player_data = player_data' ]_vars

\* a save has just succeeded after the one before it had failed while writing
\* the primary, and the primary now holds both records linked meanwhile
C10_Witness ==
  /\ save_result = "saved"
  /\ backup.kind = "corrupt"
  /\ primary.kind = "valid"
  /\ Len(primary.player_data) = 2
  /\ primary.player_data = player_data

\* C11: a load that directly follows a successful save reproduces the registry
\* that was saved, record by record (tag, owner, points, name, in order); and
\* for every valid primary, saving what a load of it yields writes the same
\* record set again.  The index takes no part in either comparison.
C11_RoundTrip ==
  [][ /\ (save_result = "saved" /\ last'.op = "on_ready")
           => player_data' = player_data
      /\ primary.kind = "valid"
           => LET st == load_and_rebuild(primary, backup)
              IN  save_player_data(st.player_data, st.user_accounts,
                                   primary, backup, "ok").primary.player_data
                    = primary.player_data ]_vars

\* a reload has just read back a primary that holds a record with points
C11_Witness ==
  /\ last.op = "on_ready"
  /\ primary.kind = "valid"
  /\ player_data = primary.player_data
  /\ \E i \in 1..Len(player_data) : player_data[i].points > 0

\* C12: the backup, when it exists, is a copy of a successfully written
\* primary: it is never a partially written or corrupt file.
C12_BackupIsGoodCopy == backup.kind \in {"absent", "valid"}

\* C13: any two successive fetches are at least SCRAPE_COOLDOWN apart.
C13_FetchesCooldownApart == scraper.gap = -1 \/ scraper.gap >= SCRAPE_COOLDOWN

\* C14: a step in which the fetch fails ends the scoring cycle with a normal
\* return of an empty update list: records, index and both files are as
\* before, nothing is saved, and the cycle is over (a new fetch needs a new
\* cycle).
C14_FailedFetchIsEmptyCycle ==
  [][ (last'.op = "fetch" /\ last'.result = "failed")
        => /\ cycle_result' = [status |-> "returned", updates |-> <<>>,
                               players |-> <<>>]
           /\ UNCHANGED <<player_data, user_accounts, primary, backup>>
           /\ save_result' = "none"
           /\ cycle' = Idle ]_vars

\* a fetch has just failed while a tag was linked
C14_Witness ==
  /\ last.op = "fetch"
  /\ last.result = "failed"
  /\ cycle_result.status = "returned"
  /\ player_data # <<>>

\* C15: no scheduled cycle lets an exception escape: the scoring cycle never
\* ends by raising and the daily report never raises.
C15_NoCycleRaises ==
  /\ cycle_result.status # "raised"
  /\ ~(last.op = "daily" /\ last.result = "raised")

\* C16: whenever the daily report has owner totals to work on, it is sent, and
\* the percentages it computes are those calculate_order_percentages gives for
\* the same totals, without any division by zero.
C16_ReportUsesOrderPercentages ==
  [][ (last'.op = "daily" /\ last'.result # "no_data")
        => LET user_totals == user_totals_of(user_accounts, player_data)
           IN  /\ last'.result = "sent"
               /\ daily_percentages(user_totals)
                    = calculate_order_percentages(user_totals) ]_vars

\* the registry right after PYL was linked to owner 1 on an empty registry
FreshPYL == <<[tag |-> TagPYL, discord_id |-> 1, points |-> 0, name |-> DisplayName(1)]>>

\* C17 as stated: on an empty registry, linking "ABC123" to owner 1 succeeds
\* and inserts the tag.
C17_LinkABC123Succeeds ==
  [][ (player_data = <<>> /\ link_slash(<<"A", "B", "C", "1", "2", "3">>, 1))
        => /\ last'.result = "Linked"
           /\ <<"A", "B", "C", "1", "2", "3">> \in Keys(player_data') ]_vars

\* C17, amended: on an empty registry, linking "ABC123" is answered InvalidTag
\* and the registry stays empty; with "PYL" linked to owner 1 instead, a
\* scoring cycle whose scrape is [{tag "#pyl", name "X", rank 1}] matches
\* exactly that record and yields the single update {PYL, 20 added, total 20},
\* after which the registry holds 20 points for PYL.
C17_Scenario ==
  [][ /\ (player_data = <<>> /\ link_slash(<<"A", "B", "C", "1", "2", "3">>, 1))
           => /\ last' = [op |-> "link", tag |-> <<>>, result |-> "InvalidTag"]
              /\ player_data' = <<>>
              /\ save_result' = "none"
      /\ (player_data = FreshPYL /\ FetchDone(ListTop1))
           => cycle'.linked = <<[tag |-> TagPYL, name |-> "X", rank |-> IntVal(1)]>>
      /\ (/\ player_data = FreshPYL
          /\ cycle.players = ListTop1
          /\ cycle.linked = <<[tag |-> TagPYL, name |-> "X", rank |-> IntVal(1)]>>
          /\ ApplyUpdates)
           => /\ cycle_result'.status = "returned"
              /\ cycle_result'.updates =
                   <<[tag |-> TagPYL, name |-> "X", rank |-> 1,
                      points_added |-> 20, total_points |-> 20]>>
              /\ Len(player_data') = 1
              /\ Get(player_data', TagPYL).points = 20 ]_vars

\* the cycle over that scrape has just credited the freshly linked PYL
C17_Witness ==
  /\ last.op = "apply"
  /\ cycle_result.players = ListTop1
  /\ Len(cycle_result.updates) = 1
  /\ player_data = <<[tag |-> TagPYL, discord_id |-> 1, points |-> 20,
                      name |-> DisplayName(1)]>>

\* C18: a step that ends a scoring cycle calls save_player_data exactly when
\* it has changed the points of some record.
C18_WriteIffDeltaApplied ==
  [][ last'.op = "apply"
        => (player_data' # player_data <=> save_result' # "none") ]_vars

\* a match whose rank converts to an integer that earns points
Scores(m) == int_of(m.rank).ok /\ calculate_points(int_of(m.rank).v) > 0

\* the tags of a list of matches or updates, in order
TagSeq(l) == [i \in 1..Len(l) |-> l[i].tag]

\* C19: a cycle whose matches are all still registered returns, and its
\* updates are, in encounter order, exactly the matches whose rank converts and
\* earns points; every other match is skipped and stops nothing.
C19_SkipsOnlyBadMatches ==
  [][ (/\ last'.op = "apply"
       /\ \A i \in 1..Len(cycle.linked) : cycle.linked[i].tag \in Keys(player_data))
        => /\ cycle_result'.status = "returned"
           /\ TagSeq(cycle_result'.updates) = TagSeq(SelectSeq(cycle.linked, Scores)) ]_vars

\* indexes a store could hold instead of the one that was written
AltIndexes ==
  {<<>>, ("1" :> <<Tag289>>), ("2" :> <<TagPYL, TagPYL>>), ("1" :> <<TagPYL>>)}

\* the same file with another stored index
WithIndex(file, ua) ==
  IF file.kind = "valid" THEN [file EXCEPT !.user_accounts = ua] ELSE file

\* C20: every load (startup or ready event) leaves, in the same step, the
\* records of the store and the index built from those records; replacing the
\* stored index of both files by any other changes nothing of the state a load
\* produces.
C20_StoredIndexIgnored ==
  [][ /\ \A alt \in AltIndexes :
           load_and_rebuild(WithIndex(primary, alt), WithIndex(backup, alt))
             = load_and_rebuild(primary, backup)
      /\ IsLoad(last'.op)
           => /\ player_data' = load_player_data(primary, backup).player_data
              /\ user_accounts' = update_user_accounts(player_data') ]_vars

\* a load has just read a valid primary whose stored index is not empty
C20_Witness ==
  /\ IsLoad(last.op)
  /\ primary.kind = "valid"
  /\ primary.user_accounts # <<>>
  /\ player_data = primary.player_data
  /\ user_accounts # <<>>

\* a candidate that, after the cleanup, parses into a non-empty array whose
\* element 0 has the key tag
Qualifies(c) ==
  LET parsed == loads(cleanup(c))
  IN  parsed.status = "ok" /\ Len(parsed.value) > 0 /\ has_tag(parsed.value[1])

\* C21: a finished extraction has not raised, and its result is the parse of
\* the first qualifying candidate of the list, or empty when none qualifies.
C21_FirstQualifyingCandidate ==
  extract.done =>
    LET matches == extract.matches
        found   == {i \in 1..Len(matches) : Qualifies(matches[i])}
    IN  /\ ~extract.raised
        /\ IF found = {}
             THEN extract.players = <<>>
             ELSE LET first == CHOOSE i \in found : \A j \in found : i <= j
                  IN  extract.players = loads(cleanup(matches[first])).value

\* the tag with one leading '#' removed, in upper case
LeadingHashStripped(tag) == upper(IF tag # <<>> /\ tag[1] = "#" THEN Tail(tag) ELSE tag)

\* the tag and rank of the records among the first 8, from position i on, whose
\* tag, normalized that way, is a key of the registry
RECURSIVE Filtered(_, _, _)
Filtered(players, pd, i) ==
  IF i > Len(players) \/ i > 8 THEN <<>>
  ELSE LET key == LeadingHashStripped(tag_of(players[i]))
       IN  (IF key \in Keys(pd)
              THEN <<[tag |-> key, rank |-> rank_of(players[i])]>>
              ELSE <<>>) \o Filtered(players, pd, i + 1)

\* C22: the step that matches a fetched list leaves registry and index as
\* they were, and its matches are, in order, exactly the records among the
\* first 8 whose tag without a leading '#', in upper case, is a key of the
\* registry, each with its rank (else position, else 0).
C22_MatcherIsPureFilter ==
  [][ (last'.op = "fetch" /\ cycle'.phase = "closing")
        => /\ UNCHANGED <<player_data, user_accounts>>
           /\ [i \in 1..Len(cycle'.linked) |->
                 [tag |-> cycle'.linked[i].tag, rank |-> cycle'.linked[i].rank]]
                = Filtered(cycle'.players, player_data, 1) ]_vars

\* C23: a step that applies the matches of a cycle, none of whose ranks is
\* infinite, returns whatever was linked or unlinked while the cycle was
\* suspended: it raises on no missing record, leaves the set of tags as it is
\* and reports no tag that is not registered.
C23_UnlinkedTagNeverApplied ==
  [][ (/\ last'.op = "apply"
       /\ \A i \in 1..Len(cycle.linked) : ~int_overflows(cycle.linked[i].rank))
        => /\ cycle_result'.status = "returned"
           /\ Keys(player_data') = Keys(player_data)
           /\ \A i \in 1..Len(cycle_result'.updates) :
                cycle_result'.updates[i].tag \in Keys(player_data) ]_vars

\* the sum of field f over the records of a list from position i on
RECURSIVE SumField(_, _, _)
SumField(l, f, i) == IF i > Len(l) THEN 0 ELSE l[i][f] + SumField(l, f, i + 1)

\* the updates a cycle hands to its caller: none when it raised
Reported(result) == IF result.status = "returned" THEN result.updates ELSE <<>>

\* C24: the step that applies a cycle's matches keeps every record's tag,
\* owner and name and the points of every tag it does not report; the sum of
\* all points grows by the sum of the reported deltas; and every reported
\* total is the points the registry holds for that tag after the step.
C24_OnlyPointsOfMatchedChange ==
  [][ last'.op = "apply"
        => LET reported == Reported(cycle_result')
           IN  /\ Len(player_data') = Len(player_data)
               /\ \A i \in 1..Len(player_data) :
                    /\ player_data'[i].tag = player_data[i].tag
                    /\ player_data'[i].discord_id = player_data[i].discord_id
                    /\ player_data'[i].name = player_data[i].name
                    /\ (\A k \in 1..Len(reported) : reported[k].tag # player_data[i].tag)
                         => player_data'[i].points = player_data[i].points
               /\ SumField(player_data', "points", 1)
                    = SumField(player_data, "points", 1)
                        + SumField(reported, "points_added", 1)
               /\ \A k \in 1..Len(reported) :
                    reported[k].total_points = Get(player_data', reported[k].tag).points ]_vars

====
